---- MODULE Spec2Model ----
(***************************************************************************)
(* The meal-analysis lifecycle of the camera screen                        *)
(* (src/client/app/(tabs)/camera.tsx): capture -> analyze -> edit ->       *)
(* re-analyze -> save -> update / discard, with the durable record of the  *)
(* posted meal id (AsyncStorage key "postedMealId").                       *)
(*                                                                         *)
(* The text typed into a numeric input is a sequence of one-character      *)
(* strings; an image payload is run-length encoded (see below).            *)
(* JavaScript values of loosely typed fields are tagged records [t, v].    *)
(***************************************************************************)
EXTENDS Integers, Sequences, FiniteSets, Bags, TLC

VARIABLES
    \* ---- redux store, state.meal (mealSlice) ----
    pendingMeal, isAnalyzing, isPosting, isUpdating,
    \* ---- component state (useState) ----
    showCamera, showEditModal, editText, mealName, mealDescription,
    ingredients, postedMealId, originalImageBase64, showIngredientEdit,
    editingIngredient,
    \* ---- environment ----
    loaded,        \* the mount effect's loadPendingMeal has been handled
    discardAlert,  \* the "Confirm" alert of handleDiscard is on screen
    alert,         \* the alert with which the latest step returned early, if
                   \* any (the alerts of settled calls are not recorded)
    fading,        \* ids of the ingredient cards whose fade-out is running
    stored,        \* AsyncStorage["postedMealId"]
    storageQ,      \* AsyncStorage operations issued and not yet completed
    net,           \* the bag of service calls (analyze, post, update) in flight
    \* ---- history (not program state) ----
    created,       \* a create succeeded since the last discard / reset
    recordCurrent, \* the durable record was written for the current draft
    editStale,     \* editingIngredient was opened before the latest analysis
    freshEdits,    \* an edit made after the latest analysis is in the draft
    \* ---- a pure function applied to a drawn input ----
    pure

vars == <<pendingMeal, isAnalyzing, isPosting, isUpdating, showCamera,
          showEditModal, editText, mealName, mealDescription, ingredients,
          postedMealId, originalImageBase64, showIngredientEdit,
          editingIngredient, loaded, discardAlert, stored, storageQ, net,
          created, recordCurrent, editStale, freshEdits, pure, alert, fading>>

storeVars == <<pendingMeal, isAnalyzing, isPosting, isUpdating>>
draftVars == <<mealName, mealDescription, ingredients>>
modalVars == <<showCamera, showEditModal, editText, showIngredientEdit,
               editingIngredient, discardAlert>>

\* null of a slot that otherwise holds a string (postedMealId, the record)
None == "null"
\* null of a slot that otherwise holds an object (pendingMeal, editingIngredient)
Null == [null |-> TRUE]
\* null where a payload (a sequence of runs) is expected: no payload has a
\* run of length 0
NullImage == <<[c |-> "null", n |-> 0]>>

-----------------------------------------------------------------------------
(* Bounds of the model *)

MaxInFlight == 2   \* service calls in flight at once
MaxStorageQ == 2   \* AsyncStorage operations outstanding at once
MaxPad      == 3   \* trailing '=' of a drawn image payload
ValSlack    == 1   \* drawn payload lengths reach MinImageLength + ValSlack
MaxRawIngs  == 2   \* ingredients of a drawn analysis response
MaxFading   == 2   \* fade-out animations running at once

(* Program constants *)

MinImageLength  == 1000
MaxRegexPadding == 2
DragThreshold   == 100

-----------------------------------------------------------------------------
(* JavaScript values *)

Undefined == [t |-> "undefined", v |-> 0]
NaN       == [t |-> "nan", v |-> 0]
Num(n)    == [t |-> "number", v |-> n]
Str(s)    == [t |-> "string", v |-> s]

\* ToBoolean: undefined, 0, NaN and "" are falsy
Truthy(x) ==
    CASE x.t = "undefined" -> FALSE
      [] x.t = "nan"       -> FALSE
      [] x.t = "number"    -> x.v # 0
      [] x.t = "string"    -> x.v # ""

\* a || b
Or(a, b) == IF Truthy(a) THEN a ELSE b

\* obj.key of a response object (a function from its own keys to values)
Get(obj, key) == IF key \in DOMAIN obj THEN obj[key] ELSE Undefined

Digits == <<"0", "1", "2", "3", "4", "5", "6", "7", "8", "9">>
IsDigit(c) == \E d \in 1..10 : Digits[d] = c
DigitVal(c) == (CHOOSE d \in 1..10 : Digits[d] = c) - 1

RECURSIVE DigitsValue(_, _)
\* the number the leading digits of s spell, continuing from acc
DigitsValue(s, acc) ==
    IF s = <<>> \/ ~IsDigit(Head(s)) THEN acc
    ELSE DigitsValue(Tail(s), 10 * acc + DigitVal(Head(s)))

\* parseFloat(text) on texts without '.' or exponent: optional sign, then the
\* longest run of digits; NaN when there is no digit to start with
ParseFloat(text) ==
    LET neg  == text # <<>> /\ Head(text) = "-"
        body == IF text # <<>> /\ Head(text) \in {"-", "+"} THEN Tail(text) ELSE text
    IN IF body = <<>> \/ ~IsDigit(Head(body)) THEN NaN
       ELSE Num((IF neg THEN -1 ELSE 1) * DigitsValue(body, 0))

-----------------------------------------------------------------------------
(* Image payloads.  A payload is kept run-length encoded: the sequence of   *)
(* runs <<[c |-> "A", n |-> 3], [c |-> "=", n |-> 1]>> is the string "AAA=". *)
(* Every run has n >= 1 and adjacent runs have different characters, so a   *)
(* string has exactly one encoding.                                         *)

Run(c, n) == [c |-> c, n |-> n]

\* a string written out character by character, one run per character
\* (for strings without a doubled character)
Chars(cs) == [i \in 1..Len(cs) |-> Run(cs[i], 1)]

RECURSIVE StrLen(_)
\* s.length
StrLen(s) == IF s = <<>> THEN 0 ELSE Head(s).n + StrLen(Tail(s))

RECURSIVE CharAt(_, _)
\* s[i - 1], for 1 <= i <= s.length
CharAt(s, i) == IF i <= Head(s).n THEN Head(s).c ELSE CharAt(Tail(s), i - Head(s).n)

RECURSIVE Substring(_, _)
\* s.substring(k): s without its first k characters
Substring(s, k) ==
    IF k = 0 \/ s = <<>> THEN s
    ELSE IF k >= Head(s).n THEN Substring(Tail(s), k - Head(s).n)
    ELSE <<Run(Head(s).c, Head(s).n - k)>> \o Tail(s)

\* s.startsWith(p), p written out character by character
StartsWith(s, p) ==
    Len(p) <= StrLen(s) /\ \A i \in 1..Len(p) : CharAt(s, i) = p[i]

RECURSIVE IndexFrom(_, _, _)
\* the 1-based index of the first c in s, counted from `before` characters
\* already passed; 0 when c is not in s
IndexFrom(s, c, before) ==
    IF s = <<>> THEN 0
    ELSE IF Head(s).c = c THEN before + 1
    ELSE IndexFrom(Tail(s), c, before + Head(s).n)

\* s.indexOf(c), 1-based; 0 when c is not in s (the code's -1)
IndexOf(s, c) == IndexFrom(s, c, 0)

\* s.trim() === ""
IsBlank(s) == \A r \in 1..Len(s) : s[r].c \in {" ", "\t", "\n"}

Base64Alphabet ==
    {"A","B","C","D","E","F","G","H","I","J","K","L","M","N","O","P","Q","R",
     "S","T","U","V","W","X","Y","Z","a","b","c","d","e","f","g","h","i","j",
     "k","l","m","n","o","p","q","r","s","t","u","v","w","x","y","z","0","1",
     "2","3","4","5","6","7","8","9","+","/"}

DataImagePrefix == <<"d","a","t","a",":","i","m","a","g","e","/">>

\* the number of '=' that end s (one run, as adjacent runs differ)
TrailingEquals(s) ==
    IF s # <<>> /\ s[Len(s)].c = "=" THEN s[Len(s)].n ELSE 0

\* /^[A-Za-z0-9+/]*={0,2}$/.test(s): alphabet characters, then at most two
\* '=', then the end ('=' is not in the alphabet, so the '=' run is the last)
Base64RegexTest(s) ==
    /\ TrailingEquals(s) <= MaxRegexPadding
    /\ \A r \in 1..Len(s) :
          s[r].c \in Base64Alphabet \/ (r = Len(s) /\ s[r].c = "=")

\* base64Data without its data-URI prefix, when it has the recognized one
CleanBase64(base64Data) ==
    IF StartsWith(base64Data, DataImagePrefix) /\ IndexOf(base64Data, ",") # 0
    THEN Substring(base64Data, IndexOf(base64Data, ","))
    ELSE base64Data

\* a mutant: the length floor is off by one (<= instead of <)
CheckCleanFloorOffByOne(cleanBase64) ==
    IF ~Base64RegexTest(cleanBase64) \/ StrLen(cleanBase64) <= MinImageLength
    THEN NullImage ELSE cleanBase64

\* the regex and length checks on the cleaned payload
CheckClean(cleanBase64) ==
    IF ~Base64RegexTest(cleanBase64) THEN NullImage
    ELSE IF StrLen(cleanBase64) < MinImageLength THEN NullImage
    ELSE cleanBase64

\* validateAndProcessImage(base64Data): the cleaned payload, or NullImage (null)
validateAndProcessImage(base64Data) ==
    IF base64Data = <<>> \/ IsBlank(base64Data)
    THEN NullImage
    ELSE CheckClean(CleanBase64(base64Data))

-----------------------------------------------------------------------------
(* The ingredient normalization of the pendingMeal effect *)

\* index as a string
IngId(index) == "ing_" \o ToString(index)

\* one entry of the .map callback; index is 0-based
FormatIngredient(ing, index) ==
    IF ing.kind = "string"
    THEN [id |-> IngId(index), name |-> Str(ing.s),
          calories |-> Num(0), protein_g |-> Num(0), carbs_g |-> Num(0),
          fats_g |-> Num(0), fiber_g |-> Num(0), sugar_g |-> Num(0),
          sodium_mg |-> Num(0)]
    ELSE [id        |-> IngId(index),
          name      |-> Or(Get(ing.o, "name"), Str("Ingredient " \o ToString(index + 1))),
          calories  |-> Or(Get(ing.o, "calories"), Num(0)),
          protein_g |-> Or(Or(Get(ing.o, "protein_g"), Get(ing.o, "protein")), Num(0)),
          carbs_g   |-> Or(Or(Get(ing.o, "carbs_g"), Get(ing.o, "carbs")), Num(0)),
          fats_g    |-> Or(Or(Get(ing.o, "fats_g"), Get(ing.o, "fat")), Num(0)),
          fiber_g   |-> Or(Or(Get(ing.o, "fiber_g"), Get(ing.o, "fiber")), Num(0)),
          sugar_g   |-> Or(Or(Get(ing.o, "sugar_g"), Get(ing.o, "sugar")), Num(0)),
          sodium_mg |-> Or(Or(Get(ing.o, "sodium_mg"), Get(ing.o, "sodium")), Num(0))]

\* (analysis.ingredients || []).map(...)
formattedIngredients(raw) ==
    [i \in 1..Len(raw) |-> FormatIngredient(raw[i], i - 1)]

NumericFields ==
    {"calories", "protein_g", "carbs_g", "fats_g", "fiber_g", "sugar_g", "sodium_mg"}

-----------------------------------------------------------------------------
(* Inputs of the lifecycle: what the camera, the gallery, the services and   *)
(* the user's keyboard can deliver                                           *)

DataUriPng ==
    Chars(DataImagePrefix \o <<"p","n","g",";","b","a","s","e","6","4",",">>)

ValidPayload == <<Run("A", MinImageLength)>>
ValidImage   == DataUriPng \o ValidPayload
ShortImage   == Chars(<<"s","h","o","r","t">>)
\* long enough, with a character that is not of the base64 alphabet
BadCharImage == DataUriPng \o <<Run("A", MinImageLength), Run("-", 1)>>

\* asset.base64 / photo.base64 as delivered; <<>> is "no image data"
CapturedImages == {ValidImage, ShortImage, BadCharImage, <<>>}

\* analysis results of the Analysis Service
Resp1 ==
    [meal_name   |-> Str("Bowl"),
     description |-> Str("rice and egg"),
     ingredients |-> << [kind |-> "string", s |-> "Rice"],
                        [kind |-> "object",
                         o |-> [name |-> Str("Egg"), protein |-> Num(6)]] >>]
Resp2 ==
    [meal_name   |-> Undefined,
     description |-> Str("tofu"),
     ingredients |-> << [kind |-> "object",
                         o |-> [name |-> Str("Tofu"), calories |-> Num(90)]] >>]
Responses == {Resp1, Resp2}

\* the pending meal a restart may find in the store
RestoredMeal == [image_base_64 |-> ValidPayload, analysis |-> Resp1]

\* the durable record a previous session may have left
PreviousMealId == "41"

\* result.payload of a fulfilled postMeal: meal_id present or not
PostPayloads == { [meal_id |-> Num(42)], [meal_id |-> Undefined] }

\* gestureState.dx, gestureState.dy at the release of a drag
DragReleases ==
    { <<0, 0>>, <<99, 0>>, <<100, 0>>, <<0, -100>>, <<101, 0>>, <<0, 101>>,
      <<60, 80>>, <<-60, -80>>, <<60, 81>>, <<-61, 80>>, <<70, 71>>,
      <<-71, 71>>, <<300, -400>> }

MealNameTexts    == {"Soup"}
DescriptionTexts == {"tasty"}
EditTexts        == {"less rice"}
CalorieTexts     == { <<"-","5">>, <<"a","b","c">> }
ProteinTexts     == { <<"7","g">> }

\* the messages of the alerts with which a handler returns early
NoAlert               == ""
InvalidImageAlert     == "Invalid image. Please try again."
NoImageAlert          == "No image available for re-analysis."
InvalidImageDataAlert == "Invalid image data."
NoImageDataAlert      == "No image data available."
CaptureFailedAlert    == "Failed to capture image."
SaveFirstAlert        == "Please save the meal first before updating."

-----------------------------------------------------------------------------
(* What is on screen *)

\* the branch `if (pendingMeal)` of the render, below `if (showCamera)`
MealView == loaded /\ ~showCamera /\ pendingMeal # Null
\* the final branch of the render
HomeView == loaded /\ ~showCamera /\ pendingMeal = Null
\* controls of the meal view proper: no modal and no alert covers them
MainTouchable ==
    MealView /\ ~showEditModal /\ ~showIngredientEdit /\ ~discardAlert
EditModalVisible == MealView /\ showEditModal /\ ~discardAlert
IngredientModalVisible ==
    MealView /\ showIngredientEdit /\ ~showEditModal /\ ~discardAlert

CanIssueStorage == Len(storageQ) < MaxStorageQ
CanIssueCall    == BagCardinality(net) < MaxInFlight

\* the calls in flight with one more / one less of call
Issue(call)  == net (+) SetToBag({call})
Settle(call) == net (-) SetToBag({call})

-----------------------------------------------------------------------------
(* mealSlice: the store's reducers, as the screen relies on them *)

\* analyzeMeal.fulfilled: the analysis becomes the pending meal
AnalyzeFulfilledReducer(call, resp) ==
    /\ pendingMeal' = [image_base_64 |-> call.imageBase64, analysis |-> resp]
    /\ isAnalyzing' = FALSE
    /\ UNCHANGED <<isPosting, isUpdating>>

\* analyzeMeal.rejected: the pending meal is kept
AnalyzeRejectedReducer ==
    /\ isAnalyzing' = FALSE
    /\ UNCHANGED <<pendingMeal, isPosting, isUpdating>>

\* postMeal.fulfilled / rejected: the pending meal is kept
PostSettledReducer ==
    /\ isPosting' = FALSE
    /\ UNCHANGED <<pendingMeal, isAnalyzing, isUpdating>>

\* updateMeal.fulfilled / rejected
UpdateSettledReducer ==
    /\ isUpdating' = FALSE
    /\ UNCHANGED <<isAnalyzing, isPosting>>

-----------------------------------------------------------------------------
(* The effects that run when pendingMeal changes *)

\* useEffect "Update local state when pending meal changes" (pm.analysis set)
PendingMealEffect(pm) ==
    /\ mealName' = Or(pm.analysis.meal_name, Str("")).v
    /\ mealDescription' = Or(pm.analysis.description, Str("")).v
    /\ ingredients' = formattedIngredients(pm.analysis.ingredients)
    /\ originalImageBase64' =
           IF pm.image_base_64 # <<>> THEN pm.image_base_64 ELSE originalImageBase64

\* useEffect "Check for persisted meal ID": AsyncStorage.getItem is issued
\* (thunk names what replaced the pending meal)
CheckPersistedMealIdEffect(thunk) ==
    storageQ' = Append(storageQ, [op |-> "getItem", for |-> thunk])

-----------------------------------------------------------------------------
(* The state after construction: the screen is mounted, nothing is loaded.  *)
(* The durable record may hold the id a previous session left.              *)

PureIdle == pure = [fn |-> "none"]

Mounted ==
    /\ pendingMeal = Null
    /\ isAnalyzing = FALSE /\ isPosting = FALSE /\ isUpdating = FALSE
    /\ showCamera = FALSE /\ showEditModal = FALSE /\ editText = ""
    /\ mealName = "" /\ mealDescription = "" /\ ingredients = <<>>
    /\ postedMealId = None /\ originalImageBase64 = <<>>
    /\ showIngredientEdit = FALSE /\ editingIngredient = Null
    /\ loaded = FALSE /\ discardAlert = FALSE
    /\ storageQ = <<>> /\ net = EmptyBag
    /\ alert = NoAlert /\ fading = EmptyBag
    /\ created = FALSE /\ editStale = FALSE /\ freshEdits = FALSE

\* a record found at mount was written for the draft of the previous session
Init ==
    /\ Mounted
    /\ stored \in {None, PreviousMealId}
    /\ recordCurrent = (stored # None)
    /\ PureIdle

-----------------------------------------------------------------------------
(* Mount *)

\* useEffect "Load pending meal on component mount": the store restores a
\* pending meal or has none; a restored one runs the pendingMeal effects
LoadPendingMeal ==
    /\ ~loaded
    /\ loaded' = TRUE
    /\ \E pm \in {Null, RestoredMeal} :
        /\ pendingMeal' = pm
        /\ IF pm = Null
           THEN UNCHANGED <<draftVars, originalImageBase64, storageQ>>
           ELSE PendingMealEffect(pm) /\ CheckPersistedMealIdEffect("loadPendingMeal")
        /\ recordCurrent' = (recordCurrent /\ pm # Null)
    /\ UNCHANGED <<isAnalyzing, isPosting, isUpdating, modalVars, postedMealId,
                   stored, net, created, editStale, freshEdits, pure, fading>>
    /\ alert' = NoAlert

-----------------------------------------------------------------------------
(* Capture *)

\* "Take Picture" on the home view
OpenCamera ==
    /\ HomeView /\ ~discardAlert /\ ~isAnalyzing
    /\ showCamera' = TRUE
    /\ UNCHANGED <<storeVars, draftVars, showEditModal, editText,
                   showIngredientEdit, editingIngredient, discardAlert,
                   postedMealId, originalImageBase64, loaded, stored, storageQ,
                   net, created, recordCurrent, editStale, freshEdits, pure,
                   fading>>
    /\ alert' = NoAlert

\* the X of the camera view
CloseCamera ==
    /\ loaded /\ showCamera
    /\ showCamera' = FALSE
    /\ UNCHANGED <<storeVars, draftVars, showEditModal, editText,
                   showIngredientEdit, editingIngredient, discardAlert,
                   postedMealId, originalImageBase64, loaded, stored, storageQ,
                   net, created, recordCurrent, editStale, freshEdits, pure,
                   fading>>
    /\ alert' = NoAlert

\* a mutant: analyzeImage without its validation of the image
analyzeImageUnvalidated(base64Image) ==
    /\ CanIssueStorage
    /\ alert' = NoAlert
    /\ originalImageBase64' = base64Image
    /\ postedMealId' = None
    /\ storageQ' = Append(storageQ,
           [op |-> "removeItem", then |-> "analyzeMeal",
            imageBase64 |-> base64Image])
    /\ created' = FALSE /\ recordCurrent' = FALSE

\* analyzeImage(base64Image) up to its first await: validation, then the
\* posted id is dropped and the removal of the durable record is issued
analyzeImage(base64Image) ==
    LET validatedBase64 == validateAndProcessImage(base64Image)
    IN IF validatedBase64 = NullImage
       THEN /\ alert' = InvalidImageAlert
            /\ UNCHANGED <<originalImageBase64, postedMealId, storageQ, created,
                           recordCurrent>>
       ELSE /\ CanIssueStorage
            /\ alert' = NoAlert
            /\ originalImageBase64' = validatedBase64
            /\ postedMealId' = None
            /\ storageQ' = Append(storageQ,
                   [op |-> "removeItem", then |-> "analyzeMeal",
                    imageBase64 |-> validatedBase64])
            /\ created' = FALSE /\ recordCurrent' = FALSE

\* takePicture when the camera delivers photo.base64 = base64
TakePictureOf(base64) ==
    /\ loaded /\ showCamera /\ ~isAnalyzing
    /\ IF base64 = <<>>
       THEN /\ alert' = CaptureFailedAlert
            /\ UNCHANGED <<showCamera, originalImageBase64, postedMealId,
                           storageQ, created, recordCurrent>>
       ELSE showCamera' = FALSE /\ analyzeImage(base64)
    /\ UNCHANGED <<storeVars, draftVars, showEditModal, editText,
                   showIngredientEdit, editingIngredient, discardAlert, loaded,
                   stored, net, editStale, freshEdits, pure, fading>>

\* takePicture: the camera delivers a photo
TakePicture == \E base64 \in CapturedImages : TakePictureOf(base64)

\* pickImage when the gallery delivers asset.base64 = base64
PickImageOf(base64) ==
    /\ HomeView /\ ~discardAlert /\ ~isAnalyzing
    /\ IF base64 = <<>>
       THEN /\ alert' = NoImageDataAlert
            /\ UNCHANGED <<originalImageBase64, postedMealId, storageQ, created,
                           recordCurrent>>
       ELSE analyzeImage(base64)
    /\ UNCHANGED <<storeVars, draftVars, modalVars, loaded, stored, net,
                   editStale, freshEdits, pure, fading>>

\* pickImage: "Choose from Gallery" on the home view delivers an asset
PickImage == \E base64 \in CapturedImages : PickImageOf(base64)

-----------------------------------------------------------------------------
(* AsyncStorage: operations complete in the order they were issued; each may *)
(* throw, which the callers catch and log                                    *)

\* checkPersistedMealId after its await: the closure's pendingMeal is the one
\* that started the effect, so only savedMealId decides
CheckPersistedMealIdDone ==
    /\ storageQ # <<>> /\ Head(storageQ).op = "getItem"
    /\ storageQ' = Tail(storageQ)
    /\ \E ok \in BOOLEAN :
        IF ok /\ stored # None
        THEN postedMealId' = stored /\ created' = (created \/ recordCurrent)
        ELSE UNCHANGED <<postedMealId, created>>
    /\ UNCHANGED <<storeVars, draftVars, modalVars, originalImageBase64, loaded,
                   stored, net, recordCurrent, editStale, freshEdits, pure,
                   fading>>
    /\ alert' = NoAlert

\* saveMealId after its await
SaveMealIdDone ==
    /\ storageQ # <<>> /\ Head(storageQ).op = "setItem"
    /\ storageQ' = Tail(storageQ)
    /\ \E ok \in BOOLEAN :
        IF ok
        THEN stored' = Head(storageQ).value /\ recordCurrent' = created
        ELSE UNCHANGED <<stored, recordCurrent>>
    /\ UNCHANGED <<storeVars, draftVars, modalVars, postedMealId,
                   originalImageBase64, loaded, net, created, editStale,
                   freshEdits, pure, fading>>
    /\ alert' = NoAlert

\* clearMealId after its await; in analyzeImage the analyzeMeal call follows
ClearMealIdDone ==
    /\ storageQ # <<>> /\ Head(storageQ).op = "removeItem"
    /\ storageQ' = Tail(storageQ)
    /\ \E ok \in BOOLEAN :
        IF ok
        THEN stored' = None /\ recordCurrent' = FALSE
        ELSE UNCHANGED <<stored, recordCurrent>>
    /\ IF Head(storageQ).then = "analyzeMeal"
       THEN /\ CanIssueCall
            /\ net' = Issue([kind |-> "analyze",
                             imageBase64 |-> Head(storageQ).imageBase64,
                             from |-> "analyzeImage"])
            /\ isAnalyzing' = TRUE
       ELSE UNCHANGED <<net, isAnalyzing>>
    /\ UNCHANGED <<pendingMeal, isPosting, isUpdating, draftVars, modalVars,
                   postedMealId, originalImageBase64, loaded, created,
                   editStale, freshEdits, pure, fading>>
    /\ alert' = NoAlert

-----------------------------------------------------------------------------
(* Analysis and re-analysis *)

\* "Edit Analysis" / the pencil on the image
OpenEditModal ==
    /\ MainTouchable
    /\ showEditModal' = TRUE
    /\ UNCHANGED <<storeVars, draftVars, showCamera, editText,
                   showIngredientEdit, editingIngredient, discardAlert,
                   postedMealId, originalImageBase64, loaded, stored, storageQ,
                   net, created, recordCurrent, editStale, freshEdits, pure,
                   fading>>
    /\ alert' = NoAlert

\* Cancel / X / back of the edit modal
CloseEditModal ==
    /\ EditModalVisible
    /\ showEditModal' = FALSE
    /\ UNCHANGED <<storeVars, draftVars, showCamera, editText,
                   showIngredientEdit, editingIngredient, discardAlert,
                   postedMealId, originalImageBase64, loaded, stored, storageQ,
                   net, created, recordCurrent, editStale, freshEdits, pure,
                   fading>>
    /\ alert' = NoAlert

\* typing the corrections
SetEditText ==
    /\ EditModalVisible
    /\ \E text \in EditTexts : editText' = text
    /\ UNCHANGED <<storeVars, draftVars, showCamera, showEditModal,
                   showIngredientEdit, editingIngredient, discardAlert,
                   postedMealId, originalImageBase64, loaded, stored, storageQ,
                   net, created, recordCurrent, editStale, freshEdits, pure,
                   fading>>
    /\ alert' = NoAlert

\* reAnalyzeWithEdits up to its await; the button needs editText.trim(). The
\* correction summary it sends is text for the service, whose reply is drawn
\* from Responses whatever the text
reAnalyzeWithEdits ==
    /\ EditModalVisible /\ editText # ""
    /\ LET imageToUse == IF originalImageBase64 # <<>> THEN originalImageBase64
                         ELSE pendingMeal.image_base_64
           validatedBase64 == validateAndProcessImage(imageToUse)
       IN IF imageToUse = <<>> \/ validatedBase64 = NullImage
          THEN /\ alert' = IF imageToUse = <<>> THEN NoImageAlert
                           ELSE InvalidImageDataAlert
               /\ UNCHANGED <<net, isAnalyzing>>
          ELSE /\ CanIssueCall
               /\ alert' = NoAlert
               /\ net' = Issue([kind |-> "analyze",
                                imageBase64 |-> validatedBase64,
                                from |-> "reAnalyzeWithEdits"])
               /\ isAnalyzing' = TRUE
    /\ UNCHANGED <<pendingMeal, isPosting, isUpdating, draftVars, modalVars,
                   postedMealId, originalImageBase64, loaded, stored, storageQ,
                   created, recordCurrent, editStale, freshEdits, pure,
                   fading>>

\* an analyzeMeal call is fulfilled: the store takes the analysis, both
\* pendingMeal effects run, and reAnalyzeWithEdits closes its modal
AnalyzeFulfilled ==
    \E call \in BagToSet(net), resp \in Responses :
        /\ call.kind = "analyze"
        /\ CanIssueStorage
        /\ net' = Settle(call)
        /\ AnalyzeFulfilledReducer(call, resp)
        /\ PendingMealEffect([image_base_64 |-> call.imageBase64,
                              analysis |-> resp])
        /\ CheckPersistedMealIdEffect("analyzeMeal")
        /\ IF call.from = "reAnalyzeWithEdits"
           THEN showEditModal' = FALSE /\ editText' = ""
           ELSE UNCHANGED <<showEditModal, editText>>
        /\ editStale' = (editingIngredient # Null)
        /\ freshEdits' = FALSE
        /\ UNCHANGED <<showCamera, showIngredientEdit, editingIngredient,
                       discardAlert, postedMealId, loaded, stored, created, recordCurrent,
                       pure, fading>>
        /\ alert' = NoAlert

\* an analyzeMeal call is rejected: an alert, nothing else
AnalyzeRejected ==
    \E call \in BagToSet(net) :
        /\ call.kind = "analyze"
        /\ net' = Settle(call)
        /\ AnalyzeRejectedReducer
        /\ UNCHANGED <<draftVars, modalVars, postedMealId, originalImageBase64,
                       loaded, stored, storageQ, created, recordCurrent, editStale, freshEdits,
                       pure, fading>>
        /\ alert' = NoAlert

-----------------------------------------------------------------------------
(* Save (create) *)

\* the updatedAnalysis of handlePost: the analysis with the local edits
updatedAnalysis ==
    [analysis    |-> pendingMeal.analysis,
     meal_name   |-> mealName,
     description |-> mealDescription,
     ingredients |-> ingredients]

\* what postMeal() commits: the thunk is dispatched without an argument, so
\* it has the store to read, and commits the store's pending meal
PostMealPayload == pendingMeal.analysis

\* handlePost up to its await; "Save Meal" is rendered while !isPosted.
\* updatedAnalysis is computed and not used
handlePost ==
    /\ MainTouchable
    /\ postedMealId = None /\ ~(isPosting \/ isUpdating)
    /\ pendingMeal # Null /\ ~isPosting
    /\ CanIssueCall
    /\ net' = Issue([kind |-> "post", payload |-> PostMealPayload])
    /\ isPosting' = TRUE
    /\ UNCHANGED <<pendingMeal, isAnalyzing, isUpdating, draftVars, modalVars,
                   postedMealId, originalImageBase64, loaded, stored, storageQ,
                   created, recordCurrent, editStale, freshEdits, pure,
                   fading>>
    /\ alert' = NoAlert

\* result.payload?.meal_id?.toString()
MealIdString(payload) ==
    IF payload.meal_id.t = "number" THEN Str(ToString(payload.meal_id.v))
    ELSE payload.meal_id

\* a mutant: a fulfilled postMeal only issues saveMealId, the id is not kept
\* in memory
PostFulfilledNotInMemory(payload) ==
    \E call \in BagToSet(net) :
        /\ call.kind = "post"
        /\ CanIssueStorage
        /\ net' = Settle(call)
        /\ PostSettledReducer
        /\ LET mealId == MealIdString(payload)
           IN IF Truthy(mealId)
              THEN storageQ' = Append(storageQ,
                                      [op |-> "setItem", value |-> mealId.v])
              ELSE UNCHANGED storageQ
        /\ created' = TRUE
        /\ UNCHANGED <<draftVars, modalVars, postedMealId, originalImageBase64,
                       loaded, stored, recordCurrent, editStale, freshEdits,
                       pure, fading>>
        /\ alert' = NoAlert

\* postMeal fulfilled with result.payload = payload: the id, when the
\* response has one, is kept in memory and saveMealId is issued
PostFulfilledWith(payload) ==
    \E call \in BagToSet(net) :
        /\ call.kind = "post"
        /\ CanIssueStorage
        /\ net' = Settle(call)
        /\ PostSettledReducer
        /\ LET mealId == MealIdString(payload)
           IN IF Truthy(mealId)
              THEN /\ postedMealId' = mealId.v
                   /\ storageQ' = Append(storageQ,
                                         [op |-> "setItem", value |-> mealId.v])
              ELSE UNCHANGED <<postedMealId, storageQ>>
        /\ created' = TRUE
        /\ UNCHANGED <<draftVars, modalVars, originalImageBase64, loaded,
                       stored, recordCurrent, editStale, freshEdits, pure,
                       fading>>
        /\ alert' = NoAlert

PostFulfilled == \E payload \in PostPayloads : PostFulfilledWith(payload)

\* postMeal rejected: an alert, nothing else
PostRejected ==
    \E call \in BagToSet(net) :
        /\ call.kind = "post"
        /\ net' = Settle(call)
        /\ PostSettledReducer
        /\ UNCHANGED <<draftVars, modalVars, postedMealId, originalImageBase64,
                       loaded, stored, storageQ, created, recordCurrent, editStale, freshEdits,
                       pure, fading>>
        /\ alert' = NoAlert

-----------------------------------------------------------------------------
(* Update *)

\* a mutant: handleUpdate without its check of the posted id
handleUpdateUnguarded ==
    /\ MainTouchable
    /\ CanIssueCall
    /\ net' = Issue([kind |-> "update", meal_id |-> postedMealId])
    /\ isUpdating' = TRUE
    /\ alert' = NoAlert
    /\ UNCHANGED <<pendingMeal, isAnalyzing, isPosting, draftVars, modalVars,
                   postedMealId, originalImageBase64, loaded, stored, storageQ,
                   created, recordCurrent, editStale, freshEdits, pure,
                   fading>>

\* handleUpdate up to its await: without a posted id it refuses with an
\* alert; with one, the call keyed by the posted id is issued (its
\* correction summary is not kept)
handleUpdate ==
    /\ MainTouchable
    /\ IF postedMealId = None
       THEN /\ alert' = SaveFirstAlert
            /\ UNCHANGED <<net, isUpdating>>
       ELSE /\ CanIssueCall
            /\ net' = Issue([kind |-> "update", meal_id |-> postedMealId])
            /\ isUpdating' = TRUE
            /\ alert' = NoAlert
    /\ UNCHANGED <<pendingMeal, isAnalyzing, isPosting, draftVars, modalVars,
                   postedMealId, originalImageBase64, loaded, stored, storageQ,
                   created, recordCurrent, editStale, freshEdits, pure,
                   fading>>

\* "Update": rendered while isPosted, disabled while posting or updating
PressUpdate ==
    /\ postedMealId # None /\ ~(isPosting \/ isUpdating)
    /\ handleUpdate

\* updateMeal fulfilled: the modal closes, the pending meal, the posted id
\* and the original image are cleared and clearMealId is issued
UpdateFulfilled ==
    \E call \in BagToSet(net) :
        /\ call.kind = "update"
        /\ CanIssueStorage
        /\ net' = Settle(call)
        /\ UpdateSettledReducer
        /\ showEditModal' = FALSE /\ editText' = ""
        /\ pendingMeal' = Null
        /\ postedMealId' = None
        /\ originalImageBase64' = <<>>
        /\ storageQ' = Append(storageQ, [op |-> "removeItem", then |-> "none",
                                         imageBase64 |-> <<>>])
        /\ created' = FALSE /\ recordCurrent' = FALSE
        /\ UNCHANGED <<draftVars, showCamera, showIngredientEdit,
                       editingIngredient, discardAlert, loaded, stored,
                       editStale, freshEdits, pure, fading>>
        /\ alert' = NoAlert

\* a mutant: a rejected update resets the pending meal and the posted id as a
\* fulfilled one does
UpdateRejectedResets ==
    \E call \in BagToSet(net) :
        /\ call.kind = "update"
        /\ net' = Settle(call)
        /\ UpdateSettledReducer
        /\ pendingMeal' = Null
        /\ postedMealId' = None
        /\ UNCHANGED <<draftVars, modalVars, originalImageBase64, loaded,
                       stored, storageQ, created, recordCurrent, editStale,
                       freshEdits, pure, fading>>
        /\ alert' = NoAlert

\* updateMeal rejected: an alert, nothing else
UpdateRejected ==
    \E call \in BagToSet(net) :
        /\ call.kind = "update"
        /\ net' = Settle(call)
        /\ UpdateSettledReducer
        /\ UNCHANGED <<pendingMeal, draftVars, modalVars, postedMealId,
                       originalImageBase64, loaded, stored, storageQ, created, recordCurrent,
                       editStale, freshEdits, pure, fading>>
        /\ alert' = NoAlert

-----------------------------------------------------------------------------
(* Discard *)

\* handleDiscard: the trash button, never disabled, raises the alert
handleDiscard ==
    /\ MainTouchable
    /\ discardAlert' = TRUE
    /\ UNCHANGED <<storeVars, draftVars, showCamera, showEditModal, editText,
                   showIngredientEdit, editingIngredient, postedMealId,
                   originalImageBase64, loaded, stored, storageQ, net, created, recordCurrent,
                   editStale, freshEdits, pure, fading>>
    /\ alert' = NoAlert

\* "Cancel" of the alert
DiscardCancel ==
    /\ discardAlert
    /\ discardAlert' = FALSE
    /\ UNCHANGED <<storeVars, draftVars, showCamera, showEditModal, editText,
                   showIngredientEdit, editingIngredient, postedMealId,
                   originalImageBase64, loaded, stored, storageQ, net, created, recordCurrent,
                   editStale, freshEdits, pure, fading>>
    /\ alert' = NoAlert

\* "Discard" of the alert: the onPress callback up to its await
DiscardConfirm ==
    /\ discardAlert
    /\ CanIssueStorage
    /\ discardAlert' = FALSE
    /\ pendingMeal' = Null
    /\ postedMealId' = None
    /\ originalImageBase64' = <<>>
    /\ mealName' = "" /\ mealDescription' = "" /\ ingredients' = <<>>
    /\ storageQ' = Append(storageQ, [op |-> "removeItem", then |-> "none",
                                     imageBase64 |-> <<>>])
    /\ created' = FALSE /\ recordCurrent' = FALSE
    /\ freshEdits' = FALSE
    /\ UNCHANGED <<isAnalyzing, isPosting, isUpdating, showCamera,
                   showEditModal, editText, showIngredientEdit,
                   editingIngredient, loaded, stored, net, editStale, pure,
                   fading>>
    /\ alert' = NoAlert

-----------------------------------------------------------------------------
(* Editing the draft *)

SetMealName ==
    /\ MainTouchable
    /\ \E text \in MealNameTexts : mealName' = text
    /\ freshEdits' = TRUE
    /\ UNCHANGED <<storeVars, mealDescription, ingredients, modalVars,
                   postedMealId, originalImageBase64, loaded, stored, storageQ,
                   net, created, recordCurrent, editStale, pure, fading>>
    /\ alert' = NoAlert

SetMealDescription ==
    /\ MainTouchable
    /\ \E text \in DescriptionTexts : mealDescription' = text
    /\ freshEdits' = TRUE
    /\ UNCHANGED <<storeVars, mealName, ingredients, modalVars, postedMealId,
                   originalImageBase64, loaded, stored, storageQ, net, created, recordCurrent,
                   editStale, pure, fading>>
    /\ alert' = NoAlert

\* prev.filter(ing => ing.id !== ingredientId)
\* a mutant: the first ingredient is dropped, whatever its id
FilterOutFirst(prev, ingredientId) ==
    IF prev = <<>> THEN prev ELSE Tail(prev)

FilterOut(prev, ingredientId) ==
    SelectSeq(prev, LAMBDA ing : ing.id # ingredientId)

\* removeIngredient, from the X of an ingredient card
\* the X button of the card of ingredients[k]: removeIngredient(ingredient.id)
removeIngredientOfCard(k) ==
    /\ MainTouchable
    /\ k \in 1..Len(ingredients)
    /\ ingredients' = FilterOut(ingredients, ingredients[k].id)
    /\ freshEdits' = TRUE
    /\ UNCHANGED <<storeVars, mealName, mealDescription, modalVars,
                   postedMealId, originalImageBase64, loaded, stored, storageQ,
                   net, created, recordCurrent, editStale, pure, fading>>
    /\ alert' = NoAlert

removeIngredient == \E k \in 1..Len(ingredients) : removeIngredientOfCard(k)

\* a mutant: the threshold is reached, not exceeded (>= instead of >)
DistanceReaches(dx, dy, limit) == dx * dx + dy * dy >= limit * limit

\* Math.sqrt(dx * dx + dy * dy) > limit, for whole dx, dy and limit >= 0:
\* the square root is increasing and the root of limit * limit is exact, so
\* the comparison is the one of the squares
DistanceExceeds(dx, dy, limit) == dx * dx + dy * dy > limit * limit

\* onPanResponderRelease of the card of ingredients[k] with displacement
\* (dx, dy): far enough, the card's fade-out starts (removeIngredient runs
\* when it ends); otherwise the card snaps back
onPanResponderReleaseOf(k, dx, dy) ==
    /\ MainTouchable
    /\ k \in 1..Len(ingredients)
    /\ IF DistanceExceeds(dx, dy, DragThreshold)
       THEN /\ BagCardinality(fading) < MaxFading
            /\ fading' = fading (+) SetToBag({ingredients[k].id})
       ELSE UNCHANGED fading
    /\ UNCHANGED <<storeVars, draftVars, modalVars, postedMealId,
                   originalImageBase64, loaded, stored, storageQ, net, created,
                   recordCurrent, editStale, freshEdits, pure>>
    /\ alert' = NoAlert

onPanResponderRelease ==
    \E k \in 1..Len(ingredients), d \in DragReleases :
        onPanResponderReleaseOf(k, d[1], d[2])

\* the end of a card's fade-out: its callback calls removeIngredient with
\* the id of the card
FadeOutDoneOf(id) ==
    /\ BagIn(id, fading)
    /\ fading' = fading (-) SetToBag({id})
    /\ ingredients' = FilterOut(ingredients, id)
    /\ freshEdits' = TRUE
    /\ UNCHANGED <<storeVars, mealName, mealDescription, modalVars,
                   postedMealId, originalImageBase64, loaded, stored,
                   storageQ, net, created, recordCurrent, editStale, pure>>
    /\ alert' = NoAlert

FadeOutDone == \E id \in BagToSet(fading) : FadeOutDoneOf(id)

\* editIngredient, from a tap on an ingredient card
editIngredient ==
    /\ MainTouchable
    /\ \E k \in 1..Len(ingredients) : editingIngredient' = ingredients[k]
    /\ showIngredientEdit' = TRUE
    /\ editStale' = FALSE
    /\ UNCHANGED <<storeVars, draftVars, showCamera, showEditModal, editText,
                   discardAlert, postedMealId, originalImageBase64, loaded,
                   stored, storageQ, net, created, recordCurrent, freshEdits, pure,
                   fading>>
    /\ alert' = NoAlert

\* parseFloat(text) || 0 of the numeric inputs
NumberInput(text) == Or(ParseFloat(text), Num(0))

\* the numeric inputs of the ingredient form (rendered while
\* editingIngredient is set)
SetEditingIngredient ==
    /\ IngredientModalVisible /\ editingIngredient # Null
    /\ \/ \E text \in CalorieTexts :
            editingIngredient' =
                [editingIngredient EXCEPT !.calories = NumberInput(text)]
       \/ \E text \in ProteinTexts :
            editingIngredient' =
                [editingIngredient EXCEPT !.protein_g = NumberInput(text)]
    /\ UNCHANGED <<storeVars, draftVars, showCamera, showEditModal, editText,
                   showIngredientEdit, discardAlert, postedMealId,
                   originalImageBase64, loaded, stored, storageQ, net, created, recordCurrent,
                   editStale, freshEdits, pure, fading>>
    /\ alert' = NoAlert

\* Cancel / X / back of the ingredient form: editingIngredient stays
CloseIngredientEdit ==
    /\ IngredientModalVisible
    /\ showIngredientEdit' = FALSE
    /\ UNCHANGED <<storeVars, draftVars, showCamera, showEditModal, editText,
                   editingIngredient, discardAlert, postedMealId,
                   originalImageBase64, loaded, stored, storageQ, net, created, recordCurrent,
                   editStale, freshEdits, pure, fading>>
    /\ alert' = NoAlert

\* prev.map(ing => ing.id === editingIngredient.id ? editingIngredient : ing)
\* a mutant: every ingredient is replaced by the edited one
ReplaceEvery(prev, edited) == [i \in 1..Len(prev) |-> edited]

\* a mutant: the first ingredient is replaced, whatever its id
ReplaceFirst(prev, edited) ==
    [i \in 1..Len(prev) |-> IF i = 1 THEN edited ELSE prev[i]]

ReplaceById(prev, edited) ==
    [i \in 1..Len(prev) |-> IF prev[i].id = edited.id THEN edited ELSE prev[i]]

\* saveIngredientEdit, the whole handler: without an ingredient being edited
\* it does nothing
saveIngredientEdit ==
    /\ IF editingIngredient # Null
       THEN /\ ingredients' = ReplaceById(ingredients, editingIngredient)
            /\ editingIngredient' = Null
            /\ showIngredientEdit' = FALSE
            /\ freshEdits' = (freshEdits \/ ~editStale)
            /\ editStale' = FALSE
       ELSE UNCHANGED <<ingredients, editingIngredient, showIngredientEdit,
                        freshEdits, editStale>>
    /\ UNCHANGED <<storeVars, mealName, mealDescription, showCamera,
                   showEditModal, editText, discardAlert, postedMealId,
                   originalImageBase64, loaded, stored, storageQ, net, created, recordCurrent,
                   pure, fading>>
    /\ alert' = NoAlert

\* "Save" of the ingredient form, rendered while an ingredient is edited
PressSaveIngredient ==
    IngredientModalVisible /\ editingIngredient # Null /\ saveIngredientEdit

-----------------------------------------------------------------------------
(* The lifecycle *)

Next ==
    \/ LoadPendingMeal
    \/ OpenCamera \/ CloseCamera \/ TakePicture \/ PickImage
    \/ CheckPersistedMealIdDone \/ SaveMealIdDone \/ ClearMealIdDone
    \/ OpenEditModal \/ CloseEditModal \/ SetEditText \/ reAnalyzeWithEdits
    \/ AnalyzeFulfilled \/ AnalyzeRejected
    \/ handlePost \/ PostFulfilled \/ PostRejected
    \/ PressUpdate \/ UpdateFulfilled \/ UpdateRejected
    \/ handleDiscard \/ DiscardCancel \/ DiscardConfirm
    \/ SetMealName \/ SetMealDescription \/ removeIngredient
    \/ onPanResponderRelease \/ FadeOutDone
    \/ editIngredient \/ SetEditingIngredient \/ CloseIngredientEdit
    \/ PressSaveIngredient

Spec == Init /\ [][Next]_vars

(* The full lifecycle is the product of two nearly independent parts; each   *)
(* is explored on its own, as the sessions of a user who leaves the other    *)
(* part's controls alone.  Every behaviour of either is a behaviour of Spec. *)

\* the commit lifecycle: capture, analysis, re-analysis, save, update and
\* discard, with the draft edited by its name and by removing ingredients
NextCommit ==
    \/ LoadPendingMeal
    \/ OpenCamera \/ CloseCamera \/ TakePicture \/ PickImage
    \/ CheckPersistedMealIdDone \/ SaveMealIdDone \/ ClearMealIdDone
    \/ OpenEditModal \/ CloseEditModal \/ SetEditText \/ reAnalyzeWithEdits
    \/ AnalyzeFulfilled \/ AnalyzeRejected
    \/ handlePost \/ PostFulfilled \/ PostRejected
    \/ PressUpdate \/ UpdateFulfilled \/ UpdateRejected
    \/ handleDiscard \/ DiscardCancel \/ DiscardConfirm
    \/ SetMealName \/ removeIngredient

SpecCommit == Init /\ [][NextCommit]_vars

\* editing a restored draft: every edit of the draft and the ingredient
\* form, with re-analysis
NextDraft ==
    \/ LoadPendingMeal
    \/ CheckPersistedMealIdDone
    \/ OpenEditModal \/ CloseEditModal \/ SetEditText \/ reAnalyzeWithEdits
    \/ AnalyzeFulfilled \/ AnalyzeRejected
    \/ SetMealName \/ SetMealDescription \/ removeIngredient
    \/ editIngredient \/ SetEditingIngredient \/ CloseIngredientEdit
    \/ PressSaveIngredient

SpecDraft == Init /\ [][NextDraft]_vars

\* dragging the ingredient cards of a restored draft: the drag is the only
\* way an ingredient is removed
NextDrag ==
    \/ LoadPendingMeal
    \/ CheckPersistedMealIdDone
    \/ onPanResponderRelease \/ FadeOutDone
    \/ SetMealName \/ SetMealDescription

SpecDrag == Init /\ [][NextDrag]_vars

\* removing the ingredients of a restored draft, by the X button of a card
\* and by dragging a card away
NextRemove ==
    \/ LoadPendingMeal
    \/ CheckPersistedMealIdDone
    \/ removeIngredient
    \/ onPanResponderRelease \/ FadeOutDone
    \/ SetMealName

SpecRemove == Init /\ [][NextRemove]_vars

\* the ingredient form over a restored draft, with saveIngredientEdit as an
\* operation of the screen: it is invoked whatever the form shows (the
\* rendered "Save" button itself, PressSaveIngredient, needs an ingredient
\* being edited); a card dragged away can go while the form is open
NextEdit ==
    \/ LoadPendingMeal
    \/ CheckPersistedMealIdDone
    \/ editIngredient \/ SetEditingIngredient \/ CloseIngredientEdit
    \/ saveIngredientEdit
    \/ onPanResponderRelease \/ FadeOutDone

SpecEdit == Init /\ [][NextEdit]_vars

\* re-analysis of a restored draft, saved, updated or neither: every
\* analyzeMeal call is a re-analysis
NextReanalyze ==
    \/ LoadPendingMeal
    \/ CheckPersistedMealIdDone \/ SaveMealIdDone \/ ClearMealIdDone
    \/ OpenEditModal \/ CloseEditModal \/ SetEditText \/ reAnalyzeWithEdits
    \/ AnalyzeFulfilled \/ AnalyzeRejected
    \/ handlePost \/ PostFulfilled \/ PostRejected
    \/ PressUpdate \/ UpdateFulfilled \/ UpdateRejected

SpecReanalyze == Init /\ [][NextReanalyze]_vars

\* capture and first analysis, with discard
NextCapture ==
    \/ LoadPendingMeal
    \/ OpenCamera \/ CloseCamera \/ TakePicture \/ PickImage
    \/ CheckPersistedMealIdDone \/ ClearMealIdDone
    \/ AnalyzeFulfilled \/ AnalyzeRejected
    \/ handleDiscard \/ DiscardCancel \/ DiscardConfirm

SpecCapture == Init /\ [][NextCapture]_vars

\* save and update with handleUpdate as an operation of the screen: it is
\* invoked whatever button the meal view shows (the rendered "Update" button
\* itself, PressUpdate, needs a posted id)
NextUpdate ==
    \/ LoadPendingMeal
    \/ CheckPersistedMealIdDone \/ SaveMealIdDone \/ ClearMealIdDone
    \/ handlePost \/ PostFulfilled \/ PostRejected
    \/ handleUpdate \/ UpdateFulfilled \/ UpdateRejected
    \/ SetMealName

SpecUpdate == Init /\ [][NextUpdate]_vars

\* a restart followed by commits and discards
NextRestart ==
    \/ LoadPendingMeal
    \/ CheckPersistedMealIdDone \/ SaveMealIdDone \/ ClearMealIdDone
    \/ handlePost \/ PostFulfilled \/ PostRejected
    \/ PressUpdate \/ UpdateFulfilled \/ UpdateRejected
    \/ handleDiscard \/ DiscardCancel \/ DiscardConfirm

\* the mount effect runs, an AsyncStorage operation that was issued
\* completes (or throws), and a service call in flight is settled
FairRestart ==
    /\ WF_vars(LoadPendingMeal)
    /\ WF_vars(CheckPersistedMealIdDone)
    /\ WF_vars(SaveMealIdDone)
    /\ WF_vars(ClearMealIdDone)
    /\ WF_vars(PostFulfilled \/ PostRejected)
    /\ WF_vars(UpdateFulfilled \/ UpdateRejected)

SpecRestart == Init /\ [][NextRestart]_vars /\ FairRestart

-----------------------------------------------------------------------------
(* validateAndProcessImage applied to drawn payloads *)

DataUriText ==
    Chars(<<"d","a","t","a",":","t","e","x","t","/","p","l","a","i","n",";",
            "b","a","s","e","6","4",",">>)
\* the recognized start without the comma that ends a prefix
DataImageNoComma == Chars(DataImagePrefix \o <<"p","n","g">>)

ValPrefixes == {<<>>, DataUriPng, DataUriText, DataImageNoComma}
ValLengths  == {0, 5} \cup ((MinImageLength - 3)..(MinImageLength + ValSlack))
ValBodyChars == {"A", "z", "9", "+", "/", "-", " "}

\* n copies of c: no run when n = 0
Copies(c, n) == IF n = 0 THEN <<>> ELSE <<Run(c, n)>>

\* payloads of one repeated character, and payloads of A's with one other
\* character second to last, each with a prefix and 0..MaxPad '='
ValInputs ==
    { pre \o Copies(c, n) \o Copies("=", pad) :
        pre \in ValPrefixes, c \in ValBodyChars, n \in ValLengths, pad \in 0..MaxPad }
    \cup
    { pre \o <<Run("A", n), Run(x, 1), Run("B", 1)>> \o Copies("=", pad) :
        pre \in ValPrefixes, x \in {"=", ",", "/"},
        n \in ValLengths \ {0}, pad \in 0..MaxPad }

InitValidate ==
    /\ Mounted /\ stored = None /\ recordCurrent = FALSE
    /\ pure \in { [fn |-> "validate", in |-> p, done |-> FALSE, out |-> NullImage] :
                   p \in ValInputs }

ApplyValidate ==
    /\ pure.fn = "validate" /\ ~pure.done
    /\ pure' = [pure EXCEPT !.done = TRUE, !.out = validateAndProcessImage(pure.in)]
    /\ UNCHANGED <<storeVars, draftVars, modalVars, postedMealId,
                   originalImageBase64, loaded, stored, storageQ, net, created, recordCurrent,
                   editStale, freshEdits, fading>>
    /\ alert' = NoAlert

SpecValidate == InitValidate /\ [][ApplyValidate]_vars

-----------------------------------------------------------------------------
(* The ingredient normalization applied to drawn responses *)

RawEntries ==
    { [kind |-> "string", s |-> "Rice"],
      [kind |-> "string", s |-> ""],
      [kind |-> "object", o |-> [name |-> Str("Egg"), protein |-> Num(6)]],
      [kind |-> "object", o |-> [name |-> Str("Egg"), protein_g |-> Num(5),
                                 protein |-> Num(6)]],
      [kind |-> "object", o |-> [calories |-> Num(90), carbs |-> Num(3)]],
      [kind |-> "object", o |-> [name |-> Str("Tofu"), calories |-> Str("90 kcal")]],
      [kind |-> "object", o |-> [name |-> Str(""), calories |-> NaN,
                                 fat |-> Num(2), sodium |-> Num(1)]],
      [kind |-> "object", o |-> [name |-> Str("Oil"), fats_g |-> Undefined,
                                 fiber |-> Num(1), sugar_g |-> Num(4)]] }

RECURSIVE SeqsUpTo(_, _)
\* the sequences over S of length at most n
SeqsUpTo(S, n) ==
    IF n = 0 THEN {<<>>}
    ELSE SeqsUpTo(S, n - 1) \cup
         { Append(q, x) : q \in { r \in SeqsUpTo(S, n - 1) : Len(r) = n - 1 }, x \in S }

InitNormalize ==
    /\ Mounted /\ stored = None /\ recordCurrent = FALSE
    /\ pure \in { [fn |-> "normalize", in |-> raw, done |-> FALSE, out |-> <<>>] :
                   raw \in SeqsUpTo(RawEntries, MaxRawIngs) }

ApplyNormalize ==
    /\ pure.fn = "normalize" /\ ~pure.done
    /\ pure' = [pure EXCEPT !.done = TRUE, !.out = formattedIngredients(pure.in)]
    /\ UNCHANGED <<storeVars, draftVars, modalVars, postedMealId,
                   originalImageBase64, loaded, stored, storageQ, net, created, recordCurrent,
                   editStale, freshEdits, fading>>
    /\ alert' = NoAlert

\* a normalized list read as a response: each Ingredient is an object
AsEntries(list) == [i \in 1..Len(list) |-> [kind |-> "object", o |-> list[i]]]

\* the normalization run again, on its own output
ReapplyNormalize ==
    /\ pure.fn = "normalize" /\ pure.done
    /\ pure' = [fn |-> "renormalize", in |-> pure.out, done |-> TRUE,
                out |-> formattedIngredients(AsEntries(pure.out))]
    /\ UNCHANGED <<storeVars, draftVars, modalVars, postedMealId,
                   originalImageBase64, loaded, stored, storageQ, net, created, recordCurrent,
                   editStale, freshEdits, fading>>
    /\ alert' = NoAlert

NextNormalize == ApplyNormalize \/ ReapplyNormalize

SpecNormalize == InitNormalize /\ [][NextNormalize]_vars

-----------------------------------------------------------------------------
(* Properties of the commit lifecycle (SpecCommit)                           *)

\* C1: in every reachable state the in-memory posted meal id is set if and
\* only if a create has succeeded since the last discard or reset (new
\* capture, successful update); a restore of the record written for the
\* current draft counts as that create.
C1_MealIdIffCreated ==
    (postedMealId # None) <=> created

\* C2: a confirmed discard clears the pending meal, the in-memory meal id
\* and the durable record together: right after the confirm callback has
\* run, none of the three is still present.
C2_DiscardClearsTogether ==
    [][DiscardConfirm =>
          (pendingMeal' = Null /\ postedMealId' = None /\ stored' = None)]_vars

\* C3: at most one service call (analyze, post or update) is in flight at
\* any time.
C3_OneCallInFlight ==
    BagCardinality(net) <= 1

\* C4: once a create has succeeded for the draft, no further create call is
\* issued before the next discard or reset.
C4_CreateAtMostOnce ==
    [][created => ~handlePost]_vars

C10_NoTransitionInFlight ==
    [][(net # EmptyBag /\ net' = net) => pendingMeal' = pendingMeal]_vars

\* C11: handleUpdate invoked while no meal id is set refuses with its alert:
\* no service call is issued, and the pending meal, the draft, the in-memory
\* meal id and the durable record (with the operations queued on it) are
\* unchanged.
C11_UpdateWithoutIdRefused ==
    [][(handleUpdate /\ postedMealId = None) =>
          /\ alert' = SaveFirstAlert
          /\ UNCHANGED <<net, isUpdating, pendingMeal, mealName, mealDescription,
                         ingredients, postedMealId, stored, storageQ>>]_vars

\* C11, its case reached: handleUpdate has just refused; nothing is posted
\* and no update is in flight
C11_RefusalReached ==
    /\ alert = SaveFirstAlert
    /\ postedMealId = None /\ pendingMeal # Null /\ ~isUpdating

\* C12 as stated: when handlePost has completed after a fulfilled create
\* that returned an id (its saveMealId has returned), the id is in the
\* in-memory postedMealId and in the durable record.
C12_IdStoredInBoth ==
    [][SaveMealIdDone =>
          (postedMealId' = Head(storageQ).value /\
           stored' = Head(storageQ).value)]_vars

\* C12, amended: a fulfilled create leaves the pending meal and the draft
\* unchanged; when its response carries a meal id, the id is in postedMealId
\* at once and the write of the durable record is issued; that write, when
\* it completes, either stores the id or (having failed) leaves the record
\* as it was.
C12_IdStoredWhenWriteSucceeds ==
    [][/\ \A payload \in PostPayloads :
            PostFulfilledWith(payload) =>
                /\ UNCHANGED <<pendingMeal, mealName, mealDescription,
                               ingredients, stored>>
                /\ IF payload.meal_id.t = "number"
                   THEN /\ postedMealId' = ToString(payload.meal_id.v)
                        /\ storageQ' =
                              Append(storageQ,
                                     [op |-> "setItem",
                                      value |-> ToString(payload.meal_id.v)])
                   ELSE UNCHANGED <<postedMealId, storageQ>>
       /\ SaveMealIdDone =>
            /\ stored' \in {stored, Head(storageQ).value}
            /\ UNCHANGED <<pendingMeal, mealName, mealDescription,
                           ingredients, postedMealId>>]_vars

\* C12, its case reached: a create was fulfilled with id 42, and the id is
\* in memory and in the durable record of the draft
C12_StoredInBothReached ==
    /\ created /\ recordCurrent /\ pendingMeal # Null
    /\ postedMealId = "42" /\ stored = "42"

\* C13: when an update call succeeds, the pending meal, the local draft
\* (name, description, ingredients) and the in-memory meal id are all
\* cleared by handleUpdate's success branch.
C13_UpdateSuccessResetsAll ==
    [][UpdateFulfilled =>
          /\ pendingMeal' = Null /\ postedMealId' = None
          /\ mealName' = "" /\ mealDescription' = "" /\ ingredients' = <<>>]_vars

\* C14: the payload committed by a create is the pending meal with the
\* current local edits: its name, description and ingredient list are the
\* ones the draft shows when "Save Meal" is pressed.
C14_PostCommitsLocalEdits ==
    [][handlePost =>
          \E call \in BagToSet(net') :
              /\ call.kind = "post" /\ CopiesIn(call, net') > CopiesIn(call, net)
              /\ Or(call.payload.meal_name, Str("")).v = mealName
              /\ Or(call.payload.description, Str("")).v = mealDescription
              /\ formattedIngredients(call.payload.ingredients) = ingredients]_vars

\* the deliverable images (with image data) that validation refuses
ImagesFailingValidation ==
    { base64 \in CapturedImages :
        base64 # <<>> /\ validateAndProcessImage(base64) = NullImage }

\* C15: a captured or picked image that fails validation is rejected with
\* the invalid-image alert before any call: no analyze call and no storage
\* operation is issued, the pending meal, the draft, the original image, the
\* in-memory meal id and the durable record are unchanged, and the screen is
\* not analyzing.
C15_InvalidImageRejected ==
    [][\A base64 \in ImagesFailingValidation :
          (TakePictureOf(base64) \/ PickImageOf(base64)) =>
              /\ alert' = InvalidImageAlert
              /\ ~isAnalyzing'
              /\ UNCHANGED <<net, storageQ, pendingMeal, mealName,
                             mealDescription, ingredients,
                             originalImageBase64, postedMealId, stored>>]_vars

\* C15, its case reached: an image has just been rejected as invalid, on a
\* screen with nothing pending and nothing in flight
C15_RejectionReached ==
    /\ alert = InvalidImageAlert
    /\ pendingMeal = Null /\ originalImageBase64 = <<>>
    /\ net = EmptyBag /\ storageQ = <<>> /\ ~isAnalyzing

-----------------------------------------------------------------------------
(* Properties of the draft (SpecDraft)                                       *)

\* C16: on release of a drag with displacement (dx, dy) the ingredient of
\* the card is removed from the draft if and only if sqrt(dx^2 + dy^2) > 100
\* (no whole r <= 100 has r^2 >= dx^2 + dy^2): then its fade-out starts and
\* the ingredient with the card's id is removed when it ends; at 100 or
\* less nothing changes. Nothing but the displacement decides.
C16_DragRemovesIffFar ==
    [][/\ \A k \in 1..Len(ingredients), d \in DragReleases :
            onPanResponderReleaseOf(k, d[1], d[2]) =>
                /\ ingredients' = ingredients
                /\ IF \A r \in 0..100 : r * r < d[1] * d[1] + d[2] * d[2]
                   THEN fading' = fading (+) SetToBag({ingredients[k].id})
                   ELSE fading' = fading
       /\ FadeOutDone =>
            \E id \in BagToSet(fading) :
                /\ fading' = fading (-) SetToBag({id})
                /\ ingredients' =
                      SelectSeq(ingredients, LAMBDA ing : ing.id # id)]_vars

\* C16, its case reached: a card was dragged far enough, its fade-out has
\* ended and its ingredient is gone from the draft
C16_DraggedAwayReached ==
    /\ pendingMeal # Null /\ fading = EmptyBag
    /\ Len(ingredients) < Len(pendingMeal.analysis.ingredients)

(*                                       *)

\* C5: after a successful (re-)analysis, as long as no edit made after it is
\* in the draft, the local name, description and ingredient list are the
\* normalization of the latest response: no edit from before the response
\* survives it.
C5_DraftReplacedWholesale ==
    (pendingMeal # Null /\ ~freshEdits) =>
        /\ mealName = Or(pendingMeal.analysis.meal_name, Str("")).v
        /\ mealDescription = Or(pendingMeal.analysis.description, Str("")).v
        /\ ingredients = formattedIngredients(pendingMeal.analysis.ingredients)

\* C6: in every reachable state every numeric field of every ingredient of
\* the draft is a number and is not negative.
C6_NumericFieldsNonNegative ==
    \A i \in 1..Len(ingredients) : \A f \in NumericFields :
        ingredients[i][f].t = "number" /\ ingredients[i][f].v >= 0

-----------------------------------------------------------------------------
(* Properties of validateAndProcessImage (SpecValidate)                      *)

\* every character of q is of the base64 alphabet
AlphabetOnly(q) == \A r \in 1..Len(q) : q[r].c \in Base64Alphabet

\* q is characters of the base64 alphabet followed by at most two '='
MatchesBase64Pattern(q) ==
    \/ AlphabetOnly(q)
    \/ /\ q # <<>>
       /\ q[Len(q)] \in { Run("=", k) : k \in 1..2 }
       /\ AlphabetOnly(SubSeq(q, 1, Len(q) - 1))

\* q is acceptable: the pattern and the minimum length
Acceptable(q) == MatchesBase64Pattern(q) /\ StrLen(q) >= 1000

\* what follows the first comma of p
AfterFirstComma(p) == Substring(p, IndexOf(p, ","))

\* p without a data-URI prefix of any media type
StripAnyDataUri(p) ==
    IF StartsWith(p, <<"d","a","t","a",":">>) /\ IndexOf(p, ",") # 0
    THEN AfterFirstComma(p) ELSE p

\* p without a data-URI prefix of an image type
StripImageDataUri(p) ==
    IF StartsWith(p, <<"d","a","t","a",":","i","m","a","g","e","/">>)
       /\ IndexOf(p, ",") # 0
    THEN AfterFirstComma(p) ELSE p

\* the result for pure.in is exactly: stripped(pure.in) when that is
\* acceptable, null otherwise
ValidatesAs(stripped) ==
    IF Acceptable(stripped) THEN pure.out = stripped ELSE pure.out = NullImage

\* C7 as stated: a payload is accepted if and only if, after stripping any
\* data-URI prefix (keeping what follows the first comma), it matches the
\* base64 pattern and has at least 1000 characters; an accepted payload is
\* returned without the prefix.
C7_AcceptsIffAnyPrefixStripped ==
    (pure.fn = "validate" /\ pure.done) => ValidatesAs(StripAnyDataUri(pure.in))

\* C7, amended: the same, where the prefix that is stripped is one that
\* starts with "data:image/" and contains a comma; any other payload is
\* checked as it is.
C7_AcceptsIffImagePrefixStripped ==
    (pure.fn = "validate" /\ pure.done) => ValidatesAs(StripImageDataUri(pure.in))

\* C7, its case reached: a payload with a prefix was accepted and returned
\* without it
C7_PrefixedAccepted ==
    /\ pure.fn = "validate" /\ pure.done
    /\ pure.out # NullImage /\ pure.out # pure.in

-----------------------------------------------------------------------------
(* Properties of the ingredient normalization (SpecNormalize)                *)

\* the keys a nutrient is read from, in order
SynonymKeys ==
    [calories  |-> <<"calories">>,
     protein_g |-> <<"protein_g", "protein">>,
     carbs_g   |-> <<"carbs_g", "carbs">>,
     fats_g    |-> <<"fats_g", "fat">>,
     fiber_g   |-> <<"fiber_g", "fiber">>,
     sugar_g   |-> <<"sugar_g", "sugar">>,
     sodium_mg |-> <<"sodium_mg", "sodium">>]

\* the value under the first populated key of keys; 0 when no key is
\* populated or the value is not a number
FirstPopulatedNumber(o, keys) ==
    LET populated == { k \in 1..Len(keys) : Truthy(Get(o, keys[k])) }
    IN IF populated = {} THEN Num(0)
       ELSE LET first == CHOOSE k \in populated : \A j \in populated : k <= j
                v == Get(o, keys[first])
            IN IF v.t = "number" THEN v ELSE Num(0)

\* C8: the normalization yields one ingredient per entry of the response, in
\* order, with id ing_<index>, each nutrient the number under its first
\* populated synonym key, and 0 where the field is absent or not a number.
C8_NormalizationShape ==
    (pure.fn = "normalize" /\ pure.done) =>
        /\ Len(pure.out) = Len(pure.in)
        /\ \A i \in 1..Len(pure.in) :
              /\ pure.out[i].id = IngId(i - 1)
              /\ \A f \in NumericFields :
                    pure.out[i][f] =
                        IF pure.in[i].kind = "string" THEN Num(0)
                        ELSE FirstPopulatedNumber(pure.in[i].o, SynonymKeys[f])

\* C17: the normalization is idempotent: run on a list that is itself the
\* output of the normalization it returns the same list, with the same ids,
\* names and numeric fields in the same order.
C17_NormalizationIdempotent ==
    pure.fn = "renormalize" => pure.out = pure.in

\* the ids of a list of ingredients, in order
IdsOf(list) == [i \in 1..Len(list) |-> list[i].id]

PairwiseDistinct(ids) ==
    \A i, j \in 1..Len(ids) : i # j => ids[i] # ids[j]

\* C20: in every reachable state the ingredients of the draft have pairwise
\* distinct ids, and a step that changes the draft and is not the arrival of
\* an analysis (a remove or a saved edit) introduces no id: the ids after it are the ids
\* before it, in order, less those it removed.
C20_IngredientIdsDistinct ==
    /\ [](PairwiseDistinct(IdsOf(ingredients)))
    /\ [][(ingredients' # ingredients /\ loaded /\ net' = net) =>
             \E gone \in SUBSET { ing.id : ing \in
                                        { ingredients[i] : i \in 1..Len(ingredients) } } :
                 IdsOf(ingredients') =
                     SelectSeq(IdsOf(ingredients), LAMBDA id : id \notin gone)]_vars

\* C20, its case reached: a draft of two ingredients, one of them edited
\* and saved since the analysis
C20_EditedDraftReached ==
    /\ pendingMeal # Null /\ Len(ingredients) = 2 /\ freshEdits
    /\ ingredients # formattedIngredients(pendingMeal.analysis.ingredients)
    /\ editingIngredient = Null

\* the step is removeIngredient(id) as specified: the ingredients with
\* another id stay, unchanged and in order, and nothing else of the meal
\* changes
RemovesExactly(id) ==
    LET keep == { i \in 1..Len(ingredients) : ingredients[i].id # id }
    IN /\ Len(ingredients') = Cardinality(keep)
       /\ \A i \in keep :
              ingredients'[Cardinality({ j \in keep : j <= i })] = ingredients[i]
       /\ (keep = 1..Len(ingredients)) => (ingredients' = ingredients)
       /\ UNCHANGED <<pendingMeal, mealName, mealDescription, postedMealId,
                      stored, storageQ>>

C22_SaveReplacesById ==
    [][saveIngredientEdit =>
          IF editingIngredient = Null
          THEN UNCHANGED <<storeVars, draftVars, modalVars, postedMealId,
                           stored, storageQ, net>>
          ELSE /\ Len(ingredients') = Len(ingredients)
               /\ \A i \in 1..Len(ingredients) :
                     /\ ingredients'[i].id = ingredients[i].id
                     /\ ingredients[i].id # editingIngredient.id
                            => ingredients'[i] = ingredients[i]
                     /\ ingredients[i].id = editingIngredient.id
                            => ingredients'[i] = editingIngredient
               /\ (\A i \in 1..Len(ingredients) :
                        ingredients[i].id # editingIngredient.id)
                     => ingredients' = ingredients]_vars

\* C22, its case reached: the second ingredient was edited and saved, the
\* first is as the analysis gave it
C22_SecondEditedReached ==
    /\ pendingMeal # Null /\ Len(ingredients) = 2 /\ editingIngredient = Null
    /\ ingredients[1] = formattedIngredients(pendingMeal.analysis.ingredients)[1]
    /\ ingredients[2] # formattedIngredients(pendingMeal.analysis.ingredients)[2]
    /\ ingredients[2].id = IngId(1)

-----------------------------------------------------------------------------
(* Properties of the re-analysis (SpecReanalyze)                             *)

\* a re-analysis call is settled
ReanalysisSettled ==
    /\ AnalyzeFulfilled \/ AnalyzeRejected
    /\ \E call \in BagToSet(net) :
          /\ call.kind = "analyze" /\ call.from = "reAnalyzeWithEdits"
          /\ net' = Settle(call)

\* the read of the durable record that a fulfilled re-analysis started
\* completes
ReanalysisReadDone ==
    CheckPersistedMealIdDone /\ Head(storageQ).for = "analyzeMeal"

\* C23: re-analysis, whether it succeeds or fails, leaves
\* postedMealId and the durable record unchanged, in its start, in the
\* settling of its call and in the read of the record that follows its
\* success.
C23_ReanalysisKeepsId ==
    [][(reAnalyzeWithEdits \/ ReanalysisSettled \/ ReanalysisReadDone) =>
          UNCHANGED <<postedMealId, stored>>]_vars

-----------------------------------------------------------------------------
(* Properties of a restart (SpecRestart)                                     *)

\* C19: in every reachable state a set postedMealId implies that a pending
\* meal is present, whatever the interleaving of discard, reset after an
\* update, completion of a post and the restore of the persisted id.
C19_PostedIdImpliesPendingMeal ==
    postedMealId # None => pendingMeal # Null

\* the screen has mounted with a restored pending meal while the durable
\* record holds the id the previous session left; the read of the record
\* is outstanding
MountedWithRecord ==
    /\ loaded /\ pendingMeal # Null /\ postedMealId = None
    /\ stored = PreviousMealId /\ recordCurrent
    /\ storageQ = <<[op |-> "getItem", for |-> "loadPendingMeal"]>>
    /\ net = EmptyBag

\* C18: the posted-meal id survives a restart. If the screen mounts with a
\* restored pending meal and the durable record holds id m, postedMealId
\* eventually is m, and a commit of that meal is routed to update: no create
\* is issued while the record holds the id of the meal. If no pending meal
\* is restored, the mount leaves postedMealId unset and does not read the
\* record.
C18_IdSurvivesRestart ==
    /\ MountedWithRecord ~> (postedMealId = PreviousMealId)
    /\ [][(recordCurrent /\ stored # None) => ~handlePost]_vars
    /\ [][(LoadPendingMeal /\ pendingMeal' = Null) =>
             (postedMealId' = None /\ storageQ' = storageQ)]_vars

====
